---------------------------- MODULE Spec2Model ----------------------------
(***************************************************************************)
(* Route planning and grid path finding of the waste-collection patrol     *)
(* simulation: public/map/reference.py (single floor) and                  *)
(* public/map/multifloor_reference.py (floors 1, 4, 5, 6).                 *)
(*                                                                         *)
(* A cell is a pair <<x, y>>.  A grid is a record [w, h, blocked]: the     *)
(* numpy array `blocked` of shape (GRID_W, GRID_H) is the set of cells     *)
(* whose entry is True.  Python's None is the value None below.            *)
(***************************************************************************)
EXTENDS Integers, Sequences, FiniteSets, TLC

VARIABLES
    grid,        \* path search: the obstacle grid
    start,       \* path search: argument `start`
    goal,        \* path search: argument `goal`
    pc,          \* path search: which call is running
    sa,          \* locals of astar(start, goal)
    sd,          \* locals of dijkstra(start, goal)
    CLUSTERS,    \* the cluster list, each cluster with its fill percentage
    START_POS,   \* the floor's start position
    END_POS,     \* the floor's end position, or None
    DUE_POINTS,  \* reference.py: the module-level list DUE_POINTS
    route,       \* the route the last build returned
    last,        \* the last operation on the floor
    fcall,       \* the frame build that ran on the route, if any
    frames,      \* the frame sequence it returned
    itinerary,   \* multifloor_reference.py: the floors run so far, with their routes
    mutation     \* the last mutation of the obstacle grid and its outcome

pathVars == <<grid, start, goal, pc, sa, sd>>

floorVars == <<CLUSTERS, START_POS, END_POS, DUE_POINTS, route, last>>

frameVars == <<fcall, frames, itinerary>>

vars == <<grid, start, goal, pc, sa, sd,
          CLUSTERS, START_POS, END_POS, DUE_POINTS, route, last,
          fcall, frames, itinerary, mutation>>

-----------------------------------------------------------------------------
(* Bounds of the explored instances *)

MaxW == 2

MaxH == 4

MaxBlocked == 2

MaxClusters == 2

-----------------------------------------------------------------------------
(* Program constants *)

GRID_W == 35

GRID_H == 20

THRESHOLD_PCT == 80

SERVICE_PAUSE_SEC == 4

QUICK_CHECK_SEC == 1

FPS == 8

None == <<-1, -1>>

Abs(n) == IF n < 0 THEN -n ELSE n

CellsOf(w, h) == (0 .. w - 1) \X (0 .. h - 1)

DIRS8 ==
    << <<1, 0>>, <<-1, 0>>, <<0, 1>>, <<0, -1>>,
       <<1, 1>>, <<-1, 1>>, <<1, -1>>, <<-1, -1>> >>

\* the neighbour offsets, in the order of the for loop
DIRS == << <<1, 0>>, <<-1, 0>>, <<0, 1>>, <<0, -1>> >>

\* 0 <= nx < GRID_W and 0 <= ny < GRID_H
InBounds(g, n) == 0 <= n[1] /\ n[1] < g.w /\ 0 <= n[2] /\ n[2] < g.h

PassableIgnoringWalls(g, n) == InBounds(g, n)

\* the two `continue` tests of the neighbour loop
Passable(g, n) == InBounds(g, n) /\ n \notin g.blocked

\* def h(p): abs(p[0]-goal[0]) + abs(p[1]-goal[1])
h(gl, p) == Abs(p[1] - gl[1]) + Abs(p[2] - gl[2])

\* the priority of a pushed entry: ng + h((nx,ny))
AstarF(ng, gl, n) == ng + h(gl, n)

\* Python's order on the heap entries (f, g, (x, y), parent): by f, then g,
\* then x, then y; no two entries of one heap agree on all four
AstarLess(a, b) ==
    \/ a[1] < b[1]
    \/ /\ a[1] = b[1]
       /\ \/ a[2] < b[2]
          \/ /\ a[2] = b[2]
             /\ \/ a[3][1] < b[3][1]
                \/ a[3][1] = b[3][1] /\ a[3][2] < b[3][2]

\* Python's order on the heap entries (d, (x, y))
DijkstraLess(a, b) ==
    \/ a[1] < b[1]
    \/ /\ a[1] = b[1]
       /\ \/ a[2][1] < b[2][1]
          \/ a[2][1] = b[2][1] /\ a[2][2] < b[2][2]

AstarPopLargest(openh) == CHOOSE e \in openh : \A o \in openh : o = e \/ AstarLess(o, e)

DijkstraPopLargest(pq) == CHOOSE e \in pq : \A o \in pq : o = e \/ DijkstraLess(o, e)

\* heappop: the smallest entry of the heap
AstarPop(openh) == CHOOSE e \in openh : \A o \in openh : o = e \/ AstarLess(e, o)

DijkstraPop(pq) == CHOOSE e \in pq : \A o \in pq : o = e \/ DijkstraLess(e, o)

\* a dict as a function on its keys
Put(d, k, v) == (k :> v) @@ d

Has(d, k) == k \in DOMAIN d

EmptyDict == <<>>

-----------------------------------------------------------------------------
(* astar *)

\* path = []; p = cur; while p is not None: path.append(p); p = came[p]
\* return path[::-1]
RECURSIVE AstarBack(_, _)
AstarBack(came, p) ==
    IF p = None THEN <<>> ELSE Append(AstarBack(came, came[p]), p)

\* if cur in visited: continue
AstarSkip(s, cur) == cur \in s.visited

\* the state at the first test of `while openh`
AstarEnter(st, gl) ==
    IF st = gl
    THEN [openh |-> {}, came |-> EmptyDict, gscore |-> EmptyDict,
          visited |-> {}, nexp |-> EmptyDict, path |-> <<st>>, done |-> TRUE]
    ELSE [openh |-> {<<h(gl, st), 0, st, None>>}, came |-> EmptyDict,
          gscore |-> Put(EmptyDict, st, 0), visited |-> {},
          nexp |-> EmptyDict, path |-> <<>>, done |-> FALSE]

\* the body of `for dx,dy in [...]` for directions i..4, from cell cur at cost g
RECURSIVE AstarRelax(_, _, _, _, _, _)
AstarRelax(g, gl, s, cur, gc, i) ==
    IF i > Len(DIRS) THEN s
    ELSE LET n  == <<cur[1] + DIRS[i][1], cur[2] + DIRS[i][2]>>
             ng == gc + 1
         IN  IF ~Passable(g, n) THEN AstarRelax(g, gl, s, cur, gc, i + 1)
             ELSE IF ~Has(s.gscore, n) \/ ng < s.gscore[n]
             THEN AstarRelax(g, gl,
                    [s EXCEPT !.gscore = Put(s.gscore, n, ng),
                              !.openh = s.openh \cup {<<AstarF(ng, gl, n), ng, n, cur>>}],
                    cur, gc, i + 1)
             ELSE AstarRelax(g, gl, s, cur, gc, i + 1)

\* one test of `while openh` and, when it passes, one iteration of the loop;
\* nexp counts how often each cell got past the visited test
AstarStep(g, gl, s) ==
    IF s.openh = {} THEN [s EXCEPT !.path = <<>>, !.done = TRUE]
    ELSE LET e   == AstarPop(s.openh)
             cur == e[3]
             s1  == [s EXCEPT !.openh = s.openh \ {e}]
         IN  IF AstarSkip(s, cur) THEN s1
             ELSE LET s2 == [s1 EXCEPT
                               !.visited = s.visited \cup {cur},
                               !.came = Put(s.came, cur, e[4]),
                               !.nexp = Put(s.nexp, cur,
                                   IF Has(s.nexp, cur) THEN s.nexp[cur] + 1 ELSE 1)]
                  IN  IF cur = gl
                      THEN [s2 EXCEPT !.path = AstarBack(s2.came, cur), !.done = TRUE]
                      ELSE AstarRelax(g, gl, s2, cur, e[2], 1)

\* the loop, run to its return: the locals at the return statement
RECURSIVE AstarRun(_, _, _)
AstarRun(g, gl, s) == IF s.done THEN s ELSE AstarRun(g, gl, AstarStep(g, gl, s))

astar(g, st, gl) == AstarRun(g, gl, AstarEnter(st, gl)).path

-----------------------------------------------------------------------------
(* dijkstra *)

\* while p in prev or p == start: path.append(p); if p == start: break; p = prev[p]
\* return path[::-1]
RECURSIVE DijkstraBack(_, _, _)
DijkstraBack(prev, st, p) ==
    IF Has(prev, p) \/ p = st
    THEN IF p = st THEN <<p>> ELSE Append(DijkstraBack(prev, st, prev[p]), p)
    ELSE <<>>

DijkstraEnter(st, gl) ==
    IF st = gl
    THEN [pq |-> {}, dist |-> EmptyDict, prev |-> EmptyDict, visited |-> {},
          path |-> <<st>>, done |-> TRUE]
    ELSE [pq |-> {<<0, st>>}, dist |-> Put(EmptyDict, st, 0), prev |-> EmptyDict,
          visited |-> {}, path |-> <<>>, done |-> FALSE]

RECURSIVE DijkstraRelax(_, _, _, _, _)
DijkstraRelax(g, s, cur, d, i) ==
    IF i > Len(DIRS) THEN s
    ELSE LET n  == <<cur[1] + DIRS[i][1], cur[2] + DIRS[i][2]>>
             nd == d + 1
         IN  IF ~Passable(g, n) THEN DijkstraRelax(g, s, cur, d, i + 1)
             ELSE IF ~Has(s.dist, n) \/ nd < s.dist[n]
             THEN DijkstraRelax(g,
                    [s EXCEPT !.dist = Put(s.dist, n, nd),
                              !.prev = Put(s.prev, n, cur),
                              !.pq = s.pq \cup {<<nd, n>>}],
                    cur, d, i + 1)
             ELSE DijkstraRelax(g, s, cur, d, i + 1)

DijkstraStep(g, st, gl, s) ==
    IF s.pq = {} THEN [s EXCEPT !.path = <<>>, !.done = TRUE]
    ELSE LET e   == DijkstraPop(s.pq)
             cur == e[2]
             s1  == [s EXCEPT !.pq = s.pq \ {e}]
         IN  IF cur \in s.visited THEN s1
             ELSE LET s2 == [s1 EXCEPT !.visited = s.visited \cup {cur}]
                  IN  IF cur = gl
                      THEN [s2 EXCEPT !.path = DijkstraBack(s2.prev, st, cur),
                                      !.done = TRUE]
                      ELSE DijkstraRelax(g, s2, cur, e[1], 1)

RECURSIVE DijkstraRun(_, _, _, _)
DijkstraRun(g, st, gl, s) ==
    IF s.done THEN s ELSE DijkstraRun(g, st, gl, DijkstraStep(g, st, gl, s))

dijkstra(g, st, gl) == DijkstraRun(g, st, gl, DijkstraEnter(st, gl)).path

------------------------------------------------------------------------------------------------------------------------------------------------\* before the call: no locals yet
AstarIdle ==
    [openh |-> {}, came |-> EmptyDict, gscore |-> EmptyDict, visited |-> {},
     nexp |-> EmptyDict, path |-> <<>>, done |-> FALSE]

DijkstraIdle ==
    [pq |-> {}, dist |-> EmptyDict, prev |-> EmptyDict, visited |-> {},
     path |-> <<>>, done |-> FALSE]

-----
(* Due points and the two route strategies *)

\* ZONE_RANK.get(zone, 5)
ZoneRank(zone) ==
    CASE zone = "bottom_left" -> 0
      [] zone = "bottom_center" -> 1
      [] zone = "bottom_right" -> 2
      [] zone = "kantin" -> 3
      [] zone = "koperasi" -> 4
      [] zone = "lain" -> 5
      [] OTHER -> 5

IsDueStrict(pct, threshold_pct) == pct > threshold_pct

\* PCT_FILL[c["name"]] >= THRESHOLD_PCT  /  c["pct"] >= threshold_pct
IsDue(pct, threshold_pct) == pct >= threshold_pct

\* [tuple(c["service"]) for c in CLUSTERS if ... >= threshold_pct]
RECURSIVE DuePoints(_, _)
DuePoints(clusters, threshold_pct) ==
    IF clusters = <<>> THEN <<>>
    ELSE LET c == Head(clusters)
             rest == DuePoints(Tail(clusters), threshold_pct)
         IN  IF IsDue(c.pct, threshold_pct) THEN <<c.service>> \o rest ELSE rest

\* service_points = [tuple(c["service"]) for c in CLUSTERS]
ServicePoints(clusters) == [i \in 1 .. Len(clusters) |-> clusters[i].service]

\* sp2zone.get(p, "lain"): the dict comprehension keeps, for a service position,
\* the zone of the last cluster that has it
Sp2Zone(clusters, p) ==
    LET at == {i \in 1 .. Len(clusters) : clusters[i].service = p}
    IN  IF at = {} THEN "lain"
        ELSE clusters[CHOOSE i \in at : \A j \in at : j <= i].zone

Manhattan(p, q) == Abs(p[1] - q[1]) + Abs(p[2] - q[2])

\* the index of the last element at the least distance
NearestIndexLast(remaining, cur) ==
    CHOOSE i \in 1 .. Len(remaining) :
        /\ \A j \in 1 .. Len(remaining) :
              Manhattan(remaining[i], cur) <= Manhattan(remaining[j], cur)
        /\ \A j \in i + 1 .. Len(remaining) :
              Manhattan(remaining[j], cur) > Manhattan(remaining[i], cur)

\* min(remaining, key=...): the index of the first element at the least distance
NearestIndex(remaining, cur) ==
    CHOOSE i \in 1 .. Len(remaining) :
        /\ \A j \in 1 .. Len(remaining) :
              Manhattan(remaining[i], cur) <= Manhattan(remaining[j], cur)
        /\ \A j \in 1 .. i - 1 :
              Manhattan(remaining[j], cur) > Manhattan(remaining[i], cur)

\* remaining.remove(nxt): drops the first occurrence, which is the one at index i
RemoveAt(seq, i) == SubSeq(seq, 1, i - 1) \o SubSeq(seq, i + 1, Len(seq))

\* while remaining: nxt = min(...); route.append(nxt); remaining.remove(nxt); cur = nxt
RECURSIVE NearestLoop(_, _, _)
NearestLoop(remaining, cur, rt) ==
    IF remaining = <<>> THEN rt
    ELSE LET i == NearestIndex(remaining, cur)
             nxt == remaining[i]
         IN  NearestLoop(RemoveAt(remaining, i), nxt, Append(rt, nxt))

AppendEndIfDistinct(rt, end_pos) ==
    IF end_pos # None /\ end_pos # rt[1] THEN Append(rt, end_pos) ELSE rt

\* if END_POS is not None: route.append(END_POS)
AppendEnd(rt, end_pos) == IF end_pos # None THEN Append(rt, end_pos) ELSE rt

\* reference.py build_route_nn(start): reads the globals DUE_POINTS and END_POS
build_route_nn(due_points, end_pos, st) ==
    AppendEnd(NearestLoop(due_points, st, <<st>>), end_pos)

PatrolKeyColumnFirst(clusters, p) == <<ZoneRank(Sp2Zone(clusters, p)), p[1], p[2]>>

\* key=lambda p: (ZONE_RANK.get(sp2zone.get(p, "lain"), 5), p[1], p[0])
PatrolKey(clusters, p) == <<ZoneRank(Sp2Zone(clusters, p)), p[2], p[1]>>

KeyLess(a, b) ==
    \/ a[1] < b[1]
    \/ a[1] = b[1] /\ a[2] < b[2]
    \/ a[1] = b[1] /\ a[2] = b[2] /\ a[3] < b[3]

\* sorted(...) is stable: p goes after every element whose key is not larger
RECURSIVE InsertSorted(_, _, _)
InsertSorted(clusters, sorted, p) ==
    IF sorted = <<>> THEN <<p>>
    ELSE IF KeyLess(PatrolKey(clusters, p), PatrolKey(clusters, Head(sorted)))
         THEN <<p>> \o sorted
         ELSE <<Head(sorted)>> \o InsertSorted(clusters, Tail(sorted), p)

RECURSIVE SortedPoints(_, _, _)
SortedPoints(clusters, points, sorted) ==
    IF points = <<>> THEN sorted
    ELSE SortedPoints(clusters, Tail(points), InsertSorted(clusters, sorted, Head(points)))

\* reference.py build_route_patrol_real(start)
build_route_patrol_real(clusters, end_pos, st) ==
    AppendEnd(<<st>> \o SortedPoints(clusters, ServicePoints(clusters), <<>>), end_pos)

\* multifloor_reference.py build_routes(CLUSTERS, threshold_pct, start_pos, end_pos,
\* mode, blocked): the route it returns (blocked is not read)
build_routes(clusters, threshold_pct, start_pos, end_pos, mode) ==
    IF mode = "nn"
    THEN AppendEnd(NearestLoop(DuePoints(clusters, threshold_pct), start_pos, <<start_pos>>),
                   end_pos)
    ELSE AppendEnd(<<start_pos>> \o SortedPoints(clusters, ServicePoints(clusters), <<>>),
                   end_pos)

-----------------------------------------------------------------------------
(* The frame builders *)

Max(a, b) == IF a >= b THEN a ELSE b

\* [b] * n
Copies(b, n) == [k \in 1 .. n |-> b]

\* seg[1:]
Rest(seg) == SubSeq(seg, 2, Len(seg))

\* b in DUE_POINTS
InList(b, points) == \E k \in 1 .. Len(points) : points[k] = b

\* reference.py: pf = astar if pathfinder == "astar" else dijkstra
Pf(pathfinder, g, a, b) ==
    IF pathfinder = "astar" THEN astar(g, a, b) ELSE dijkstra(g, a, b)

\* reference.py build_path: the frames appended after a segment's movement
PathDwell(b, due_points, end_pos, mode) ==
    IF end_pos = None \/ b # end_pos
    THEN IF mode = "nn"
         THEN IF InList(b, due_points)
              THEN Copies(b, Max(1, SERVICE_PAUSE_SEC * FPS))
              ELSE <<>>
         ELSE IF mode = "patrol"
              THEN LET dur == IF InList(b, due_points)
                              THEN SERVICE_PAUSE_SEC ELSE QUICK_CHECK_SEC
                   IN  Copies(b, Max(1, dur * FPS))
              ELSE <<>>
    ELSE <<>>

\* reference.py build_path: one iteration of the loop over zip(route[:-1], route[1:])
PathSegment(g, a, b, due_points, end_pos, mode, pathfinder) ==
    LET seg == Pf(pathfinder, g, a, b)
    IN  IF Len(seg) <= 1
        THEN <<>>
        ELSE Rest(seg) \o PathDwell(b, due_points, end_pos, mode)

RECURSIVE PathLoop(_, _, _, _, _, _, _)
PathLoop(g, rt, i, due_points, end_pos, mode, pathfinder) ==
    IF i >= Len(rt)
    THEN <<>>
    ELSE PathSegment(g, rt[i], rt[i + 1], due_points, end_pos, mode, pathfinder)
         \o PathLoop(g, rt, i + 1, due_points, end_pos, mode, pathfinder)

\* reference.py: build_path(route, mode, pathfinder), reading blocked, END_POS, DUE_POINTS
build_path(g, rt, due_points, end_pos, mode, pathfinder) ==
    IF Len(rt) < 2
    THEN <<>>
    ELSE PathLoop(g, rt, 1, due_points, end_pos, mode, pathfinder)

\* multifloor_reference.py build_frames: due_set
DueSet(clusters) ==
    {clusters[i].service : i \in {j \in 1 .. Len(clusters) :
                                    IsDue(clusters[j].pct, THRESHOLD_PCT)}}

\* multifloor_reference.py build_frames: the frames appended after a segment's movement
FrameDwell(b, due_set, mode) ==
    IF b \in due_set
    THEN Copies(b, Max(1, SERVICE_PAUSE_SEC * FPS))
    ELSE IF mode = "patrol"
         THEN Copies(b, Max(1, QUICK_CHECK_SEC * FPS))
         ELSE <<>>

\* multifloor_reference.py build_frames: one iteration of the loop
FrameSegment(g, a, b, due_set, mode) ==
    LET seg == astar(g, a, b)
    IN  IF Len(seg) <= 1
        THEN <<>>
        ELSE Rest(seg) \o FrameDwell(b, due_set, mode)

RECURSIVE FrameLoop(_, _, _, _, _)
FrameLoop(g, rt, i, due_set, mode) ==
    IF i >= Len(rt)
    THEN <<>>
    ELSE FrameSegment(g, rt[i], rt[i + 1], due_set, mode)
         \o FrameLoop(g, rt, i + 1, due_set, mode)

\* multifloor_reference.py: build_frames(blocked, route, CLUSTERS, mode)
build_frames(g, rt, clusters, mode) ==
    IF Len(rt) < 2
    THEN <<>>
    ELSE FrameLoop(g, rt, 1, DueSet(clusters), mode)

-----------------------------------------------------------------------------
(* A floor with a small cluster list: the routes of both scripts *)

\* the service positions, start and end positions the small floors use
FloorCells == (0 .. 2) \X (0 .. 2)

Zones == {"bottom_left", "gudang"}

Fills == {79, 80}

\* the (start, end) pairs of the scripts: a round trip and a one-way run
\* (reference.py), floor 1 and the upper floors (multifloor_reference.py)
FloorEnds ==
    LET st == <<1, 2>>
        tr == <<1, 1>>
    IN  {<<st, st>>, <<st, None>>, <<st, tr>>, <<tr, tr>>}

ClusterLists ==
    UNION {
        {cl \in [1 .. n -> [name : {0}, service : FloorCells, zone : Zones, pct : Fills]] :
            \A i, j \in 1 .. n : i # j => cl[i].service # cl[j].service}
        : n \in 0 .. MaxClusters}

\* the cluster list with its names set: cluster i is named i
Named(cl) == [i \in 1 .. Len(cl) |-> [cl[i] EXCEPT !.name = i]]

NoPath ==
    /\ grid = [w |-> 0, h |-> 0, blocked |-> {}]
    /\ start = None
    /\ goal = None
    /\ pc = "off"
    /\ sa = AstarIdle
    /\ sd = DijkstraIdle

NoCall == [fn |-> "off", mode |-> "off", pathfinder |-> "off"]

NoMutation == [fn |-> "off", cells |-> {}, wrote |-> {}, outcome |-> "off"]

NoFrames ==
    /\ fcall = NoCall
    /\ frames = <<>>
    /\ itinerary = <<>>

NoFloor ==
    /\ CLUSTERS = <<>>
    /\ START_POS = None
    /\ END_POS = None
    /\ DUE_POINTS = <<>>
    /\ route = <<>>
    /\ last = "off"

InitRoute ==
    /\ NoPath
    /\ NoFrames
    /\ mutation = NoMutation
    /\ \E cl \in ClusterLists : CLUSTERS = Named(cl)
    /\ \E se \in FloorEnds : START_POS = se[1] /\ END_POS = se[2]
    /\ DUE_POINTS = DuePoints(CLUSTERS, THRESHOLD_PCT)
    /\ route = <<>>
    /\ last = "load"

\* reference.py: route_nn = build_route_nn(START_POS)
BuildRouteNN ==
    /\ last = "load"
    /\ route' = build_route_nn(DUE_POINTS, END_POS, START_POS)
    /\ last' = "build_route_nn"
    /\ UNCHANGED <<CLUSTERS, START_POS, END_POS, DUE_POINTS>>
    /\ UNCHANGED pathVars
    /\ UNCHANGED frameVars
    /\ UNCHANGED mutation

\* reference.py: route_patrol_real = build_route_patrol_real(START_POS)
BuildRoutePatrol ==
    /\ last = "load"
    /\ route' = build_route_patrol_real(CLUSTERS, END_POS, START_POS)
    /\ last' = "build_route_patrol_real"
    /\ UNCHANGED <<CLUSTERS, START_POS, END_POS, DUE_POINTS>>
    /\ UNCHANGED pathVars
    /\ UNCHANGED frameVars
    /\ UNCHANGED mutation

\* multifloor_reference.py: build_routes(clusters, THRESHOLD_PCT, start, end, mode, blk)
BuildRoutes(mode) ==
    /\ last = "load"
    /\ route' = build_routes(CLUSTERS, THRESHOLD_PCT, START_POS, END_POS, mode)
    /\ last' = "build_routes_" \o mode
    /\ UNCHANGED <<CLUSTERS, START_POS, END_POS, DUE_POINTS>>
    /\ UNCHANGED pathVars
    /\ UNCHANGED frameVars
    /\ UNCHANGED mutation

NextRoute ==
    \/ BuildRouteNN
    \/ BuildRoutePatrol
    \/ BuildRoutes("nn")
    \/ BuildRoutes("patrol")

SpecRoute == InitRoute /\ [][NextRoute]_vars

-----------------------------------------------------------------------------
(* A floor with walls: a route build, then a frame build on that route *)

\* wall layouts drawn by block_rect / block_hline / block_vline: none, a
\* corner closed off, a wall across the floor
Walls ==
    { {},
      {<<1, 0>>, <<0, 1>>},
      {<<0, 1>>, <<1, 1>>, <<2, 1>>} }

\* blocked[sx, sy] = False for every service position, the start and the end
ForcedPassable(clusters, start_pos, end_pos) ==
    {clusters[i].service : i \in 1 .. Len(clusters)} \cup {start_pos, end_pos}

\* the cluster lists of the walled floors: one zone
OneZoneLists == {cl \in ClusterLists : \A i \in 1 .. Len(cl) : cl[i].zone = "bottom_left"}

InitFrames ==
    /\ \E cl \in OneZoneLists : CLUSTERS = Named(cl)
    /\ \E se \in FloorEnds : START_POS = se[1] /\ END_POS = se[2]
    /\ \E walls \in Walls :
          grid = [w |-> 3, h |-> 3,
                  blocked |-> walls \ ForcedPassable(CLUSTERS, START_POS, END_POS)]
    /\ start = None
    /\ goal = None
    /\ pc = "off"
    /\ sa = AstarIdle
    /\ sd = DijkstraIdle
    /\ DUE_POINTS = DuePoints(CLUSTERS, THRESHOLD_PCT)
    /\ route = <<>>
    /\ last = "load"
    /\ NoFrames
    /\ mutation = NoMutation

\* the mode a route was built for
RouteMode ==
    IF last \in {"build_route_nn", "build_routes_nn"} THEN "nn" ELSE "patrol"

\* reference.py: build_path(route_nn, "nn", pathfinder) / build_path(route_patrol_real, "patrol", pathfinder)
BuildPath(pathfinder) ==
    /\ last \in {"build_route_nn", "build_route_patrol_real"}
    /\ fcall = NoCall
    /\ fcall' = [fn |-> "build_path", mode |-> RouteMode, pathfinder |-> pathfinder]
    /\ frames' = build_path(grid, route, DUE_POINTS, END_POS, RouteMode, pathfinder)
    /\ UNCHANGED <<itinerary, mutation>>
    /\ UNCHANGED floorVars
    /\ UNCHANGED pathVars

\* multifloor_reference.py: build_frames(blk, route, clusters, mode)
BuildFrames ==
    /\ last \in {"build_routes_nn", "build_routes_patrol"}
    /\ fcall = NoCall
    /\ fcall' = [fn |-> "build_frames", mode |-> RouteMode, pathfinder |-> "astar"]
    /\ frames' = build_frames(grid, route, CLUSTERS, RouteMode)
    /\ UNCHANGED <<itinerary, mutation>>
    /\ UNCHANGED floorVars
    /\ UNCHANGED pathVars

NextFrames ==
    \/ BuildRouteNN
    \/ BuildRoutePatrol
    \/ BuildRoutes("nn")
    \/ BuildRoutes("patrol")
    \/ BuildPath("astar")
    \/ BuildPath("dijkstra")
    \/ BuildFrames

SpecFrames == InitFrames /\ [][NextFrames]_vars

-----------------------------------------------------------------------------
(* multifloor_reference.py: floor 1, then floors 4, 5 and 6.  Each floor's  *)
(* layout is drawn, the fill percentages are planted into its clusters and  *)
(* the two routes are built.  A layout is the part of the drawer's result   *)
(* the routes read: CLUSTERS, START_POS, END_POS.                           *)

TRANSFER_POS == <<GRID_W \div 2, 1>>

\* reference.py: PCT_BY_CLUSTER, which PCT_FILL is a copy of
PCT_BY_CLUSTER ==
    [n \in {"top_left_row", "top_right_col", "bottom_left_col",
            "bottom_mid_row", "bottom_right_col"} |->
        CASE n = "top_left_row" -> 83
          [] n = "top_right_col" -> 55
          [] n = "bottom_left_col" -> 92
          [] n = "bottom_mid_row" -> 48
          [] n = "bottom_right_col" -> 88]

Cluster(name, service, zone) == [name |-> name, service |-> service, zone |-> zone, pct |-> 0]

\* reference.py: CLUSTERS, START_POS and END_POS, a round trip
ReferenceFloor ==
    [CLUSTERS |-> << Cluster("top_left_row", <<3, 6>>, "koperasi"),
                     Cluster("top_right_col", <<GRID_W - 13, 4>>, "kantin"),
                     Cluster("bottom_left_col", <<2, 16>>, "bottom_left"),
                     Cluster("bottom_mid_row", <<17, 18>>, "bottom_center"),
                     Cluster("bottom_right_col", <<GRID_W - 3, 16>>, "bottom_right") >>,
     START_POS |-> <<1, 19>>,
     END_POS |-> <<1, 19>>]

\* floor 1 as a round trip: its route would end at its door
Floor1RoundTrip == [ReferenceFloor EXCEPT !.END_POS = ReferenceFloor.START_POS]

draw_layout_floor1 ==
    [CLUSTERS |-> << Cluster("top_left_row", <<3, 6>>, "koperasi"),
                     Cluster("top_right_col", <<GRID_W - 13, 4>>, "kantin"),
                     Cluster("bottom_left_col", <<2, 16>>, "bottom_left"),
                     Cluster("bottom_mid_row", <<17, 18>>, "bottom_center"),
                     Cluster("bottom_right_col", <<GRID_W - 3, 16>>, "bottom_right") >>,
     START_POS |-> <<1, 19>>,
     END_POS |-> TRANSFER_POS]

draw_layout_floor456 ==
    [CLUSTERS |-> << Cluster("left_stack", <<1, 4>>, "lain"),
                     Cluster("right_stack", <<GRID_W - 2, 10>>, "lain") >>,
     START_POS |-> TRANSFER_POS,
     END_POS |-> TRANSFER_POS]

PCT_BY_CLUSTER_F1 == PCT_BY_CLUSTER

PCT_BY_CLUSTER_F4 == [n \in {"left_stack", "right_stack"} |-> IF n = "left_stack" THEN 70 ELSE 90]

PCT_BY_CLUSTER_F5 == [n \in {"left_stack", "right_stack"} |-> IF n = "left_stack" THEN 40 ELSE 85]

PCT_BY_CLUSTER_F6 == [n \in {"left_stack", "right_stack"} |-> IF n = "left_stack" THEN 95 ELSE 55]

\* the floors in the order the script runs them
FloorOrder == <<1, 4, 5, 6>>

\* the script's own fill percentages of a floor
PctOfFloor(n) ==
    CASE n = 1 -> PCT_BY_CLUSTER_F1
      [] n = 4 -> PCT_BY_CLUSTER_F4
      [] n = 5 -> PCT_BY_CLUSTER_F5
      [] n = 6 -> PCT_BY_CLUSTER_F6

\* the fill inputs of a floor: the script's, and every assignment of a fill
\* on either side of the threshold
PctInputs(n) == {PctOfFloor(n)} \cup [DOMAIN PctOfFloor(n) -> Fills]

\* PCT_BY_CLUSTER.get(name, 0.0)
PctGet(pcts, name) == IF name \in DOMAIN pcts THEN pcts[name] ELSE 0

\* for c in clusters: c["pct"] = float(PCT_BY_CLUSTER.get(c["name"], 0.0))
PlantPct(clusters, pcts) ==
    [i \in 1 .. Len(clusters) |-> [clusters[i] EXCEPT !.pct = PctGet(pcts, clusters[i].name)]]

InitFloors ==
    /\ NoPath
    /\ NoFloor
    /\ NoFrames
    /\ mutation = NoMutation

\* the floor the script runs next
NextFloor == FloorOrder[Len(itinerary) + 1]

LoadFloor(layout, pcts) ==
    /\ CLUSTERS' = PlantPct(layout.CLUSTERS, pcts)
    /\ START_POS' = layout.START_POS
    /\ END_POS' = layout.END_POS
    /\ route' = <<>>
    /\ last' = "load"
    /\ itinerary' = Append(itinerary, [floor |-> NextFloor, nn |-> <<>>, patrol |-> <<>>])
    /\ UNCHANGED <<DUE_POINTS, fcall, frames, mutation>>
    /\ UNCHANGED pathVars

\* blk1, clusters1, bins1, start1, end1 = draw_layout_floor1(), and the fill planted
RunFloor1 ==
    /\ last = "off"
    /\ \E pcts \in PctInputs(1) : LoadFloor(draw_layout_floor1, pcts)

\* blk, clusters, bins, start, end = draw_layout_floor456(title), and the fill planted
RunFloor456 ==
    /\ last = "build_routes_patrol"
    /\ Len(itinerary) < Len(FloorOrder)
    /\ \E pcts \in PctInputs(NextFloor) : LoadFloor(draw_layout_floor456, pcts)

\* route_nn, due, _ = build_routes(clusters, THRESHOLD_PCT, start, end, mode="nn", blocked=blk)
RouteNN ==
    /\ last = "load"
    /\ route' = build_routes(CLUSTERS, THRESHOLD_PCT, START_POS, END_POS, "nn")
    /\ itinerary' = [itinerary EXCEPT ![Len(itinerary)].nn = route']
    /\ last' = "build_routes_nn"
    /\ UNCHANGED <<CLUSTERS, START_POS, END_POS, DUE_POINTS, fcall, frames, mutation>>
    /\ UNCHANGED pathVars

\* route_pat, _, _ = build_routes(clusters, THRESHOLD_PCT, start, end, mode="patrol", blocked=blk)
RoutePat ==
    /\ last = "build_routes_nn"
    /\ route' = build_routes(CLUSTERS, THRESHOLD_PCT, START_POS, END_POS, "patrol")
    /\ itinerary' = [itinerary EXCEPT ![Len(itinerary)].patrol = route']
    /\ last' = "build_routes_patrol"
    /\ UNCHANGED <<CLUSTERS, START_POS, END_POS, DUE_POINTS, fcall, frames, mutation>>
    /\ UNCHANGED pathVars

NextFloors ==
    \/ RunFloor1
    \/ RunFloor456
    \/ RouteNN
    \/ RoutePat

SpecFloors == InitFloors /\ [][NextFloors]_vars

-----------------------------------------------------------------------------
(* Fill percentages that change between builds.  reference.py keeps the     *)
(* fill in PCT_FILL and the due list in DUE_POINTS, both built when the      *)
(* module loads; multifloor_reference.py keeps the fill in each cluster's    *)
(* "pct".  CLUSTERS[i].pct is the current fill in both.                      *)

InitDue ==
    /\ NoPath
    /\ NoFrames
    /\ mutation = NoMutation
    /\ CLUSTERS = PlantPct(ReferenceFloor.CLUSTERS, PCT_BY_CLUSTER)
    /\ START_POS = ReferenceFloor.START_POS
    /\ END_POS = ReferenceFloor.END_POS
    /\ DUE_POINTS = DuePoints(CLUSTERS, THRESHOLD_PCT)
    /\ route = <<>>
    /\ last = "load"

\* PCT_FILL[name] = pct  /  c["pct"] = pct
SetFill ==
    /\ \E i \in 1 .. Len(CLUSTERS) : \E pct \in Fills :
          /\ CLUSTERS[i].pct # pct
          /\ CLUSTERS' = [CLUSTERS EXCEPT ![i].pct = pct]
    /\ last' = "set_fill"
    /\ UNCHANGED <<START_POS, END_POS, DUE_POINTS, route>>
    /\ UNCHANGED pathVars
    /\ UNCHANGED frameVars
    /\ UNCHANGED mutation

\* reference.py: build_route_nn(START_POS), which reads DUE_POINTS
RebuildRouteNN ==
    /\ route' = build_route_nn(DUE_POINTS, END_POS, START_POS)
    /\ last' = "build_route_nn"
    /\ UNCHANGED <<CLUSTERS, START_POS, END_POS, DUE_POINTS>>
    /\ UNCHANGED pathVars
    /\ UNCHANGED frameVars
    /\ UNCHANGED mutation

\* multifloor_reference.py: build_routes(clusters, THRESHOLD_PCT, start, end, mode="nn")
RebuildRoutes ==
    /\ route' = build_routes(CLUSTERS, THRESHOLD_PCT, START_POS, END_POS, "nn")
    /\ last' = "build_routes_nn"
    /\ UNCHANGED <<CLUSTERS, START_POS, END_POS, DUE_POINTS>>
    /\ UNCHANGED pathVars
    /\ UNCHANGED frameVars
    /\ UNCHANGED mutation

NextDue ==
    \/ SetFill
    \/ RebuildRouteNN
    \/ RebuildRoutes

SpecDue == InitDue /\ [][NextDue]_vars

-----------------------------------------------------------------------------
(* The obstacle grid and its mutations: block_rect, block_hline,            *)
(* block_vline (the same in both scripts) and the item assignment           *)
(* blocked[x, y] = True on the numpy array.  mutation records the cells a   *)
(* call addresses, the cells it wrote and how it ended.                     *)

Min(a, b) == IF a <= b THEN a ELSE b

\* for xx in range(x, x+w): for yy in range(y, y+h)
RectCells(x, y, wd, ht) == (x .. x + wd - 1) \X (y .. y + ht - 1)

\* a, b = sorted([x0, x1]); for xx in range(a, b+1)
HlineCells(x0, x1, y) == (Min(x0, x1) .. Max(x0, x1)) \X {y}

\* a, b = sorted([y0, y1]); for yy in range(a, b+1)
VlineCells(x, y0, y1) == {x} \X (Min(y0, y1) .. Max(y0, y1))

\* if 0 <= xx < GRID_W and 0 <= yy < GRID_H: blocked[xx, yy] = True
Clipped(g, cells) == {c \in cells : InBounds(g, c)}

block_rect(g, x, y, wd, ht) == [g EXCEPT !.blocked = @ \cup Clipped(g, RectCells(x, y, wd, ht))]

block_hline(g, x0, x1, y) == [g EXCEPT !.blocked = @ \cup Clipped(g, HlineCells(x0, x1, y))]

block_vline(g, x, y0, y1) == [g EXCEPT !.blocked = @ \cup Clipped(g, VlineCells(x, y0, y1))]

\* numpy: an index i of an axis of size n is valid iff -n <= i < n, and a
\* negative index counts from the end
IndexValid(i, n) == -n <= i /\ i < n

Wrapped(i, n) == IF i < 0 THEN i + n ELSE i

\* the arguments the mutations are called with: up to one cell outside
\* the grid on every side
ArgX(g) == -1 .. g.w

ArgY(g) == -1 .. g.h

InitGrid ==
    /\ grid = [w |-> 3, h |-> 3, blocked |-> {}]
    /\ start = None
    /\ goal = None
    /\ pc = "off"
    /\ sa = AstarIdle
    /\ sd = DijkstraIdle
    /\ NoFloor
    /\ NoFrames
    /\ mutation = NoMutation

\* the layout is drawn while fewer than MaxBlocked cells are blocked
Drawing == Cardinality(grid.blocked) < MaxBlocked

BlockRect ==
    /\ Drawing
    /\ \E x \in ArgX(grid), y \in ArgY(grid), wd \in 1 .. 2, ht \in 1 .. 2 :
          /\ grid' = block_rect(grid, x, y, wd, ht)
          /\ mutation' = [fn |-> "block_rect", cells |-> RectCells(x, y, wd, ht),
                          wrote |-> Clipped(grid, RectCells(x, y, wd, ht)), outcome |-> "ok"]
    /\ UNCHANGED <<start, goal, pc, sa, sd>>
    /\ UNCHANGED floorVars
    /\ UNCHANGED frameVars

BlockHline ==
    /\ Drawing
    /\ \E x0 \in ArgX(grid), x1 \in ArgX(grid), y \in ArgY(grid) :
          /\ grid' = block_hline(grid, x0, x1, y)
          /\ mutation' = [fn |-> "block_hline", cells |-> HlineCells(x0, x1, y),
                          wrote |-> Clipped(grid, HlineCells(x0, x1, y)), outcome |-> "ok"]
    /\ UNCHANGED <<start, goal, pc, sa, sd>>
    /\ UNCHANGED floorVars
    /\ UNCHANGED frameVars

BlockVline ==
    /\ Drawing
    /\ \E x \in ArgX(grid), y0 \in ArgY(grid), y1 \in ArgY(grid) :
          /\ grid' = block_vline(grid, x, y0, y1)
          /\ mutation' = [fn |-> "block_vline", cells |-> VlineCells(x, y0, y1),
                          wrote |-> Clipped(grid, VlineCells(x, y0, y1)), outcome |-> "ok"]
    /\ UNCHANGED <<start, goal, pc, sa, sd>>
    /\ UNCHANGED floorVars
    /\ UNCHANGED frameVars

\* blocked[bx, by] = True
SetBlocked ==
    /\ Drawing
    /\ \E x \in ArgX(grid), y \in ArgY(grid) :
          IF IndexValid(x, grid.w) /\ IndexValid(y, grid.h)
          THEN LET c == <<Wrapped(x, grid.w), Wrapped(y, grid.h)>>
               IN  /\ grid' = [grid EXCEPT !.blocked = @ \cup {c}]
                   /\ mutation' = [fn |-> "setitem", cells |-> {<<x, y>>},
                                   wrote |-> {c}, outcome |-> "ok"]
          ELSE /\ grid' = grid
               /\ mutation' = [fn |-> "setitem", cells |-> {<<x, y>>},
                               wrote |-> {}, outcome |-> "IndexError"]
    /\ UNCHANGED <<start, goal, pc, sa, sd>>
    /\ UNCHANGED floorVars
    /\ UNCHANGED frameVars

NextGrid ==
    \/ BlockRect
    \/ BlockHline
    \/ BlockVline
    \/ SetBlocked

SpecGrid == InitGrid /\ [][NextGrid]_vars

-----
(* The path search: astar(start, goal), then dijkstra(start, goal), on one *)
(* grid.  sa and sd hold each call's locals at its return.                 *)

SmallGrids ==
    {[w |-> MaxW, h |-> MaxH, blocked |-> b] :
        b \in {s \in SUBSET CellsOf(MaxW, MaxH) : Cardinality(s) <= MaxBlocked}}

InitPath ==
    /\ grid \in SmallGrids
    /\ start \in CellsOf(MaxW, MaxH)
    /\ goal \in CellsOf(MaxW, MaxH)
    /\ pc = "idle"
    /\ sa = AstarIdle
    /\ sd = DijkstraIdle
    /\ NoFloor
    /\ NoFrames
    /\ mutation = NoMutation

CallAstar ==
    /\ pc = "idle"
    /\ pc' = "astar"
    /\ sa' = AstarRun(grid, goal, AstarEnter(start, goal))
    /\ UNCHANGED <<grid, start, goal, sd>>
    /\ UNCHANGED floorVars
    /\ UNCHANGED frameVars
    /\ UNCHANGED mutation

CallDijkstra ==
    /\ pc = "astar"
    /\ pc' = "done"
    /\ sd' = DijkstraRun(grid, start, goal, DijkstraEnter(start, goal))
    /\ UNCHANGED <<grid, start, goal, sa>>
    /\ UNCHANGED floorVars
    /\ UNCHANGED frameVars
    /\ UNCHANGED mutation

NextPath == CallAstar \/ CallDijkstra

SpecPath == InitPath /\ [][NextPath]_vars

-----------------------------------------------------------------------------
(* Reference notions the path claims are stated against: they read the     *)
(* grid directly and use none of the search's own operators.               *)

Free(g, n) ==
    /\ n[1] \in 0 .. g.w - 1
    /\ n[2] \in 0 .. g.h - 1
    /\ n \notin g.blocked

Adjacent(a, b) == Abs(a[1] - b[1]) + Abs(a[2] - b[2]) = 1

Around(c) == {<<c[1] + 1, c[2]>>, <<c[1] - 1, c[2]>>, <<c[1], c[2] + 1>>, <<c[1], c[2] - 1>>}

\* breadth-first search over the free cells: the number of steps from the
\* frontier (d steps from the start) to gl, or -1 when gl cannot be reached
RECURSIVE Bfs(_, _, _, _, _)
Bfs(g, frontier, seen, gl, d) ==
    IF gl \in frontier THEN d
    ELSE IF frontier = {} THEN -1
    ELSE LET nxt == {n \in UNION {Around(c) : c \in frontier} : Free(g, n)} \ seen
         IN  Bfs(g, nxt, seen \cup nxt, gl, d + 1)

Distance(g, st, gl) == Bfs(g, {st}, {st}, gl, 0)

Reachable == Distance(grid, start, goal) >= 0

\* each of the goal's four neighbours is blocked or out of bounds
GoalEnclosed == \A n \in Around(goal) : ~Free(grid, n)

WellFormed(p) ==
    /\ p[1] = start
    /\ p[Len(p)] = goal
    /\ \A i \in 1 .. Len(p) - 1 : Adjacent(p[i], p[i + 1])
    /\ \A i \in 2 .. Len(p) : Free(grid, p[i])

-----------------------------------------------------------------------------
(* Claims about the path search *)

\* C1: for every grid and every pair (start, goal) for which a path exists,
\* astar and dijkstra both return a path, and the two paths have the same
\* number of cells.
C1_SameLength ==
    (pc = "done" /\ Reachable) =>
        /\ Len(sa.path) >= 1
        /\ Len(sa.path) = Len(sd.path)

\* a detour around obstacles on which the two algorithms return different
\* cell sequences
C1_Witness ==
    /\ pc = "done"
    /\ Reachable
    /\ Len(sa.path) > h(goal, start) + 1
    /\ sa.path # sd.path

\* C2: the path astar returns for a reachable goal has as many cells as the
\* breadth-first distance from start to goal plus one, and no cell gets past
\* the visited test a second time.
C2_AstarOptimal ==
    pc = "astar" =>
        /\ LET d == Distance(grid, start, goal)
           IN  d >= 0 => Len(sa.path) = d + 1
        /\ \A c \in DOMAIN sa.nexp : sa.nexp[c] = 1

\* astar returned a path longer than the Manhattan distance, and a heap entry
\* of an already finalised cell was popped and skipped on the way
C2_Witness ==
    /\ pc = "astar"
    /\ Reachable
    /\ Len(sa.path) > h(goal, start) + 1
    /\ Cardinality(sa.visited) < Cardinality(DOMAIN sa.gscore)

\* C3: every non-empty path returned by astar or dijkstra begins at start,
\* ends at goal, moves one step along one axis at a time, and every cell
\* after the first is in bounds and not blocked.
C3_PathWellFormed ==
    /\ (pc = "astar" /\ sa.path # <<>>) => WellFormed(sa.path)
    /\ (pc = "done" /\ sd.path # <<>>) => WellFormed(sd.path)

\* both algorithms returned a path of at least three cells around a wall
C3_Witness ==
    /\ pc = "done"
    /\ Len(sa.path) >= 3
    /\ Len(sd.path) >= 3
    /\ grid.blocked # {}
    /\ Len(sa.path) > h(goal, start) + 1

\* C4 as stated: for every start, a goal enclosed by blocked cells makes
\* both searches return an empty sequence.
C4_EnclosedGoalEmpty ==
    (pc = "done" /\ GoalEnclosed) => (sa.path = <<>> /\ sd.path = <<>>)

\* C4 as amended: when the start is a passable cell other than the goal, a
\* goal enclosed by blocked cells is never popped and both searches return
\* an empty sequence.
C4_EnclosedGoalEmptyFromElsewhere ==
    (GoalEnclosed /\ start # goal /\ Free(grid, start)) =>
        /\ pc # "idle" => sa.path = <<>> /\ goal \notin sa.visited
        /\ pc = "done" => sd.path = <<>> /\ goal \notin sd.visited

\* both searches ran out of cells without reaching an enclosed, passable goal
C4_Witness ==
    /\ pc = "done"
    /\ GoalEnclosed
    /\ Free(grid, goal)
    /\ Free(grid, start)
    /\ start # goal
    /\ Cardinality(sa.visited) >= 2
    /\ sa.path = <<>>
    /\ sd.path = <<>>

-----------------------------------------------------------------------------
(* Claims about the routes.  The cluster lists have pairwise distinct      *)
(* service positions, as the scripts' dicts keyed by service position      *)
(* (sp2zone, sp2name) suppose.                                             *)

NearestDueBuilt == last \in {"build_route_nn", "build_routes_nn"}

PatrolBuilt == last \in {"build_route_patrol_real", "build_routes_patrol"}

\* the clusters whose fill percentage is at least the threshold
DueClusters == {i \in 1 .. Len(CLUSTERS) : CLUSTERS[i].pct >= THRESHOLD_PCT}

EndCount == IF END_POS = None THEN 0 ELSE 1

\* how often position p is among the waypoints first..lst of the route
Visits(p, first, lst) == Cardinality({k \in first .. lst : route[k] = p})

\* C5: the Nearest-Due route is start, then the service position of every DUE
\* cluster exactly once and of no other cluster, then end if one is
\* configured: |DUE| + 1 + (1 if end configured) waypoints.
C5_NearestDueVisitsDue ==
    NearestDueBuilt =>
        LET n == Cardinality(DueClusters)
        IN  /\ Len(route) = n + 1 + EndCount
            /\ route[1] = START_POS
            /\ END_POS # None => route[Len(route)] = END_POS
            /\ \A i \in 1 .. Len(CLUSTERS) :
                  Visits(CLUSTERS[i].service, 2, n + 1) = IF i \in DueClusters THEN 1 ELSE 0

\* a route built over one cluster exactly at the threshold and one below it
C5_Witness ==
    /\ NearestDueBuilt
    /\ END_POS # None
    /\ \E i, j \in 1 .. Len(CLUSTERS) :
          /\ CLUSTERS[i].pct = THRESHOLD_PCT
          /\ CLUSTERS[j].pct < THRESHOLD_PCT
    /\ Len(route) = 3

\* C6 as stated: with no DUE cluster the Nearest-Due route is [start], followed
\* by end only if an end is configured and differs from start.
C6_NoDueEndOnlyIfDistinct ==
    (NearestDueBuilt /\ DueClusters = {}) =>
        route = IF END_POS # None /\ END_POS # START_POS
                THEN <<START_POS, END_POS>> ELSE <<START_POS>>

\* C6 as amended: with no DUE cluster the Nearest-Due route is [start],
\* followed by end whenever an end is configured, also when end equals start.
C6_NoDueStartThenEnd ==
    (NearestDueBuilt /\ DueClusters = {}) =>
        route = IF END_POS # None THEN <<START_POS, END_POS>> ELSE <<START_POS>>

\* a round trip (end = start) over clusters none of which is DUE
C6_Witness ==
    /\ NearestDueBuilt
    /\ DueClusters = {}
    /\ CLUSTERS # <<>>
    /\ END_POS = START_POS
    /\ route = <<START_POS, START_POS>>

\* the patrol order of cluster i: (zoneRank(zone), y, x)
ClusterKey(c) == <<ZoneRank(c.zone), c.service[2], c.service[1]>>

ClusterAt(p) == CHOOSE i \in 1 .. Len(CLUSTERS) : CLUSTERS[i].service = p

\* the cluster list with every fill percentage set to zero
Emptied == [i \in 1 .. Len(CLUSTERS) |-> [CLUSTERS[i] EXCEPT !.pct = 0]]

\* C7: the Full-Patrol route is start, then the service position of every
\* cluster exactly once in non-decreasing (zoneRank, y, x) order, then end if
\* one is configured; the order is the one the same clusters get with all
\* fills at zero, a threshold of zero and the start at the origin.
C7_PatrolOrder ==
    PatrolBuilt =>
        LET n == Len(CLUSTERS)
        IN  /\ Len(route) = n + 1 + EndCount
            /\ route[1] = START_POS
            /\ END_POS # None => route[Len(route)] = END_POS
            /\ \A i \in 1 .. n : Visits(CLUSTERS[i].service, 2, n + 1) = 1
            /\ \A k \in 2 .. n :
                  ~KeyLess(ClusterKey(CLUSTERS[ClusterAt(route[k + 1])]),
                           ClusterKey(CLUSTERS[ClusterAt(route[k])]))
            /\ SubSeq(route, 2, n + 1) =
                  SubSeq(IF last = "build_route_patrol_real"
                         THEN build_route_patrol_real(Emptied, END_POS, <<0, 0>>)
                         ELSE build_routes(Emptied, 0, <<0, 0>>, END_POS, "patrol"),
                         2, n + 1)

\* a patrol that visits a non-DUE cluster of a lower-ranked zone before a DUE
\* cluster that comes first in the cluster list and lies nearer to the start
C7_Witness ==
    /\ PatrolBuilt
    /\ Len(CLUSTERS) = 2
    /\ CLUSTERS[1].pct >= THRESHOLD_PCT
    /\ CLUSTERS[2].pct < THRESHOLD_PCT
    /\ ZoneRank(CLUSTERS[2].zone) < ZoneRank(CLUSTERS[1].zone)
    /\ Manhattan(CLUSTERS[1].service, START_POS) < Manhattan(CLUSTERS[2].service, START_POS)
    /\ route[2] = CLUSTERS[2].service
    /\ route[3] = CLUSTERS[1].service

-----------------------------------------------------------------------------
(* Claims about the frame sequences *)

FramesBuilt == fcall # NoCall

\* the waypoint is the service position of a cluster whose fill is at or
\* over the threshold
IsDueWaypoint(b) ==
    \E i \in 1 .. Len(CLUSTERS) :
        CLUSTERS[i].service = b /\ CLUSTERS[i].pct >= THRESHOLD_PCT

ServiceDwell == Max(1, SERVICE_PAUSE_SEC * FPS)

QuickDwell == Max(1, QUICK_CHECK_SEC * FPS)

\* the path finder's result for segment i of the route
SegmentPath(i) == Pf(fcall.pathfinder, grid, route[i], route[i + 1])

\* the agent is at waypoint i + 1 after segment i: the path finder found a
\* path, of one cell when it was there already
Arrives(i) == Len(SegmentPath(i)) >= 1

\* fr is, segment by segment from segment i on, the path without its first
\* cell followed by the dwell: ServiceDwell copies at a DUE arrival, none or
\* QuickDwell copies elsewhere
RECURSIVE DwellsAtDue(_, _)
DwellsAtDue(fr, i) ==
    IF i >= Len(route)
    THEN fr = <<>>
    ELSE LET p == SegmentPath(i)
             b == route[i + 1]
             mv == IF Len(p) <= 1 THEN <<>> ELSE Rest(p)
             n == Len(mv)
             after == SubSeq(fr, n + 1, Len(fr))
             Dwelled(k) ==
                 /\ Len(after) >= k
                 /\ SubSeq(after, 1, k) = Copies(b, k)
                 /\ DwellsAtDue(SubSeq(after, k + 1, Len(after)), i + 1)
         IN  /\ Len(fr) >= n
             /\ SubSeq(fr, 1, n) = mv
             /\ IF Arrives(i) /\ IsDueWaypoint(b)
                THEN Dwelled(ServiceDwell)
                ELSE Dwelled(0) \/ Dwelled(QuickDwell)

\* C8: in the frame sequence of any route, in either mode, every arrival at
\* a DUE waypoint is followed by exactly max(1, servicePauseSeconds x fps)
\* copies of the waypoint, and the frames are, segment after segment, the
\* path's cells after the first (path length - 1 of them) and the dwell.
C8_DueArrivalDwells == FramesBuilt => DwellsAtDue(frames, 1)

\* the cases C8 fails in: a DUE waypoint the agent is at already when its
\* segment begins, and, in build_path, a DUE waypoint at the end position
DueWithoutMove ==
    \E i \in 1 .. Len(route) - 1 :
        /\ IsDueWaypoint(route[i + 1])
        /\ \/ route[i] = route[i + 1]
           \/ fcall.fn = "build_path" /\ route[i + 1] = END_POS

\* outside those cases the frames are as C8 says
DwellsWhenMoved == (FramesBuilt /\ ~DueWithoutMove) => DwellsAtDue(frames, 1)

-----------------------------------------------------------------------------
(* Claims about the multi-floor itinerary *)

\* the routes built so far on the k-th floor of the itinerary
RoutesOf(k) == {r \in {itinerary[k].nn, itinerary[k].patrol} : r # <<>>}

EndsAtTransfer(r) == r[Len(r)] = TRANSFER_POS

StartsAtTransfer(r) == r[1] = TRANSFER_POS

\* C9: in the itinerary floor 1, 4, 5, 6, for both strategies and any fill
\* assignment, floor 1's route ends at the transfer position and each upper
\* floor's route starts and ends there, so that the last waypoint of a
\* floor's route is the first waypoint of the next floor's route.
C9_FloorsMeetAtTransfer ==
    /\ \A k \in 1 .. Len(itinerary) : \A r \in RoutesOf(k) :
          IF itinerary[k].floor = 1
          THEN EndsAtTransfer(r)
          ELSE StartsAtTransfer(r) /\ EndsAtTransfer(r)
    /\ \A k \in 1 .. Len(itinerary) - 1 :
          \A r \in RoutesOf(k) : \A nx \in RoutesOf(k + 1) : r[Len(r)] = nx[1]

\* all four floors are run with both routes built, the floors are 1, 4, 5, 6,
\* floor 1 starts at its door and visits DUE clusters, an upper floor has a
\* DUE cluster and another has none
C9_Witness ==
    /\ Len(itinerary) = 4
    /\ last = "build_routes_patrol"
    /\ [k \in 1 .. 4 |-> itinerary[k].floor] = <<1, 4, 5, 6>>
    /\ itinerary[1].nn[1] = <<1, 19>>
    /\ Len(itinerary[1].nn) = 5
    /\ Len(itinerary[1].patrol) = 7
    /\ Len(itinerary[2].nn) = 3
    /\ Len(itinerary[3].nn) = 2
    /\ Len(itinerary[4].patrol) = 4

-----------------------------------------------------------------------------
(* Claims about the due classification *)

\* the service positions the route visits between its start and its end
Visited == {route[k] : k \in 2 .. Len(route) - EndCount}

\* the service positions of the clusters whose fill is now at or over the threshold
DueNow == {CLUSTERS[i].service : i \in DueClusters}

\* C10: in any sequence of fill changes and builds, each build classifies a
\* cluster as DUE iff its fill at the time of the build is at or over the
\* threshold: the Nearest-Due route a build returns visits exactly the
\* clusters that are DUE by the fill of that moment.
C10_DueIsCurrent == NearestDueBuilt => Visited = DueNow

\* build_routes, which reads the fill at each call, classifies by the
\* current fill
DueOnDemand == last = "build_routes_nn" => Visited = DueNow

\* build_route_nn classifies by the fill the module was loaded with
DueAsLoaded ==
    last = "build_route_nn" =>
        Visited = {ReferenceFloor.CLUSTERS[i].service :
                      i \in {j \in 1 .. Len(CLUSTERS) :
                                PCT_BY_CLUSTER[CLUSTERS[j].name] >= THRESHOLD_PCT}}

-----------------------------------------------------------------------------
(* Claims about the grid mutations *)

\* the last mutation addressed a cell outside [0, W) x [0, H)
TouchesOutside == \E c \in mutation.cells : ~InBounds(grid, c)

\* C11: a grid mutation (a rectangle, a horizontal or vertical line, a
\* single cell) that touches a cell outside [0, W) x [0, H) fails with an
\* out-of-bounds outcome and writes no cell: it is not clamped and not
\* applied to its in-bounds cells only.
C11_OutOfBoundsFailsFast ==
    TouchesOutside => (mutation.outcome \notin {"ok", "off"} /\ mutation.wrote = {})

\* what the block_* functions do instead: they end normally having written
\* exactly the in-bounds cells they address
BlockClips ==
    mutation.fn \in {"block_rect", "block_hline", "block_vline"} =>
        /\ mutation.outcome = "ok"
        /\ mutation.wrote = {c \in mutation.cells : InBounds(grid, c)}
        /\ mutation.wrote \subseteq grid.blocked

\* the item assignment fails only at or past the far edge
SetItemWraps ==
    mutation.fn = "setitem" =>
        \/ mutation.outcome = "IndexError" /\ mutation.wrote = {} /\ TouchesOutside
        \/ mutation.outcome = "ok" /\ mutation.wrote \subseteq grid.blocked

-----------------------------------------------------------------------------
(* Claims about the steps of the Nearest-Due construction *)

\* the DUE clusters not visited before step k of the route (waypoint k is
\* the one step k appends)
Unvisited(k) == {i \in DueClusters : \A m \in 2 .. k - 1 : route[m] # CLUSTERS[i].service}

\* the distance from the position the agent is at when step k begins
FromCurrent(k, i) == Manhattan(route[k - 1], CLUSTERS[i].service)

\* some other unvisited DUE cluster is as near as the one step k appends
TiedAt(k) ==
    \E j \in Unvisited(k) :
        /\ CLUSTERS[j].service # route[k]
        /\ FromCurrent(k, j) = Manhattan(route[k - 1], route[k])

\* C12: at every step of the Nearest-Due construction the waypoint appended
\* is an unvisited DUE service position at the least Manhattan distance
\* from the current position, and of several at that distance the one whose
\* cluster comes first in the cluster list.
C12_NearestFirstInListOrder ==
    NearestDueBuilt =>
        \A k \in 2 .. Len(route) - EndCount :
            \E i \in Unvisited(k) :
                /\ route[k] = CLUSTERS[i].service
                /\ \A j \in Unvisited(k) :
                      /\ FromCurrent(k, i) <= FromCurrent(k, j)
                      /\ FromCurrent(k, i) = FromCurrent(k, j) => i <= j

\* two DUE clusters are equally near at the first step and the one chosen,
\* first in the list, is not the first by its coordinates
C12_Witness ==
    /\ NearestDueBuilt
    /\ Len(route) - EndCount >= 3
    /\ TiedAt(2)
    /\ route[2] = CLUSTERS[1].service
    /\ route[3] = CLUSTERS[2].service
    /\ route[3][1] < route[2][1]

-----------------------------------------------------------------------------
(* Claims about segments without movement *)

Segments == 1 .. Len(route) - 1

\* the path finder's result has length <= 1: the agent is at b already, or
\* b cannot be reached
Short(i) == Len(SegmentPath(i)) <= 1

\* the dwell the rule of the frame sequencer gives waypoint b: the service
\* dwell if b is DUE, the quick check if it is not and the mode is the
\* patrol, none otherwise
RuleDwell(b) ==
    IF IsDueWaypoint(b) THEN ServiceDwell
    ELSE IF fcall.mode = "patrol" THEN QuickDwell
    ELSE 0

\* fr is, segment by segment from segment i on, the movement followed by
\* copies of the waypoint: after a segment without movement exactly the
\* dwell of the rule, after any other segment none, QuickDwell or ServiceDwell
RECURSIVE DwellsWithoutMove(_, _)
DwellsWithoutMove(fr, i) ==
    IF i >= Len(route)
    THEN fr = <<>>
    ELSE LET b == route[i + 1]
             mv == IF Short(i) THEN <<>> ELSE Rest(SegmentPath(i))
             n == Len(mv)
             after == SubSeq(fr, n + 1, Len(fr))
             Dwelled(k) ==
                 /\ Len(after) >= k
                 /\ SubSeq(after, 1, k) = Copies(b, k)
                 /\ DwellsWithoutMove(SubSeq(after, k + 1, Len(after)), i + 1)
         IN  /\ Len(fr) >= n
             /\ SubSeq(fr, 1, n) = mv
             /\ IF Short(i)
                THEN Dwelled(RuleDwell(b))
                ELSE Dwelled(0) \/ Dwelled(QuickDwell) \/ Dwelled(ServiceDwell)

\* C13: when the path finder's result for a segment (a, b) has length <= 1,
\* the frame builder appends no movement for the segment and still appends
\* the dwell of b: the service dwell if b is DUE, the quick check if b is
\* not DUE and the mode is the patrol.
C13_ShortSegmentStillDwells == FramesBuilt => DwellsWithoutMove(frames, 1)

\* what the builders do instead: a segment without movement leaves no
\* frame at all, so a route of such segments only has no frames
ShortSegmentsLeaveNothing ==
    (FramesBuilt /\ \A i \in Segments : Short(i)) => frames = <<>>

\* a route of segments without movement whose waypoints are owed a dwell
ShortSegmentsOwedDwell ==
    /\ FramesBuilt
    /\ Len(route) >= 3
    /\ \A i \in Segments : Short(i)
    /\ \E i \in Segments : SegmentPath(i) = <<>> /\ RuleDwell(route[i + 1]) = ServiceDwell
    /\ \E i \in Segments : Len(SegmentPath(i)) = 1 /\ RuleDwell(route[i + 1]) = QuickDwell

-----------------------------------------------------------------------------
(* Claims about the quick check *)

\* the agent moved to waypoint i + 1 over a path of two or more cells
Moved(i) == Len(SegmentPath(i)) >= 2

\* the dwell of a waypoint that is not DUE: the quick check in the patrol,
\* none in the Nearest-Due mode
NonDueDwell == IF fcall.mode = "patrol" THEN QuickDwell ELSE 0

\* fr is, segment by segment from segment i on, the movement followed by
\* copies of the waypoint: exactly NonDueDwell of them after the agent
\* moved to a waypoint that is not DUE (waypoints in ex excepted); none,
\* QuickDwell or ServiceDwell after any other segment
RECURSIVE QuickChecks(_, _, _)
QuickChecks(fr, i, ex) ==
    IF i >= Len(route)
    THEN fr = <<>>
    ELSE LET b == route[i + 1]
             mv == IF Short(i) THEN <<>> ELSE Rest(SegmentPath(i))
             n == Len(mv)
             after == SubSeq(fr, n + 1, Len(fr))
             Dwelled(k) ==
                 /\ Len(after) >= k
                 /\ SubSeq(after, 1, k) = Copies(b, k)
                 /\ QuickChecks(SubSeq(after, k + 1, Len(after)), i + 1, ex)
         IN  /\ Len(fr) >= n
             /\ SubSeq(fr, 1, n) = mv
             /\ IF Moved(i) /\ ~IsDueWaypoint(b) /\ b \notin ex
                THEN Dwelled(NonDueDwell)
                ELSE Dwelled(0) \/ Dwelled(QuickDwell) \/ Dwelled(ServiceDwell)

\* C14: in the patrol every arrival at a waypoint that is not DUE, the end
\* position included, is followed by exactly max(1, quickCheckSeconds x fps)
\* copies of it; in the Nearest-Due mode no dwell follows an arrival at a
\* waypoint that is not DUE; build_path and build_frames apply this same rule.
C14_QuickCheckAtNonDue == FramesBuilt => QuickChecks(frames, 1, {})

\* build_frames applies the rule
QuickCheckInBuildFrames ==
    (FramesBuilt /\ fcall.fn = "build_frames") => QuickChecks(frames, 1, {})

\* build_path applies it at every waypoint but END_POS
QuickCheckButAtEnd ==
    (FramesBuilt /\ fcall.fn = "build_path") => QuickChecks(frames, 1, {END_POS})

-----------------------------------------------------------------------------
(* Claims about unreachable segments.  A frame build returns its frame      *)
(* sequence and nothing else, and raises nothing: the frames are its whole  *)
(* outcome.                                                                 *)

\* the segments the path finder returned an empty path for
Failed == {i \in Segments : SegmentPath(i) = <<>>}

\* the waypoints of the route at the indices in S, in the route's order
SubRoute(S) ==
    [k \in 1 .. Cardinality(S) |->
        route[CHOOSE i \in S : Cardinality({j \in S : j <= i}) = k]]

\* the routes left when waypoints are taken out of the route
SubRoutes == {SubRoute(S) : S \in (SUBSET (1 .. Len(route))) \ {{}}}

\* the path finder finds a path for every segment of rt
AllFound(rt) ==
    \A i \in 1 .. Len(rt) - 1 : Pf(fcall.pathfinder, grid, rt[i], rt[i + 1]) # <<>>

\* the outcome of the same frame build on the route rt
Rebuilt(rt) ==
    IF fcall.fn = "build_path"
    THEN build_path(grid, rt, DUE_POINTS, END_POS, fcall.mode, fcall.pathfinder)
    ELSE build_frames(grid, rt, CLUSTERS, fcall.mode)

\* C15: whenever the path finder returns an empty path for a segment of the
\* route, the outcome of the frame build shows it: it differs from the
\* outcome of every route whose segments were all reachable, here the
\* routes left when waypoints are taken out of this one.
C15_UnreachableSurfaced ==
    (FramesBuilt /\ Failed # {}) =>
        \A rt \in SubRoutes : AllFound(rt) => Rebuilt(rt) # frames

\* what the builders do instead: a route whose segments all fail gives the
\* outcome of the route that is its start alone
AllFailedLooksIdle ==
    (FramesBuilt /\ Segments # {} /\ Failed = Segments) => frames = Rebuilt(<<route[1]>>)

-----------------------------------------------------------------------------
(* Claims about the trajectory *)

\* the route's first waypoint followed by the frame sequence
Trajectory == <<route[1]>> \o frames

\* each position is the previous one or 4-adjacent to it
Continuous(t) ==
    \A k \in 1 .. Len(t) - 1 : t[k + 1] = t[k] \/ Adjacent(t[k], t[k + 1])

\* every frame is an in-bounds cell that is not blocked
FramesFree == \A k \in 1 .. Len(frames) : Free(grid, frames[k])

\* C16: for every grid and route, the trajectory formed by the route's first
\* waypoint followed by the frame sequence is continuous, each position
\* equal or 4-adjacent to the one before, and every frame is an in-bounds
\* cell that is not blocked, also when a segment is unreachable.
C16_TrajectoryContinuous == FramesBuilt => (Continuous(Trajectory) /\ FramesFree)

\* the trajectory is continuous when the path finder found a path for every
\* segment, and the frames are free cells in every case
ContinuousWhenFound ==
    FramesBuilt => (FramesFree /\ (Failed = {} => Continuous(Trajectory)))

\* a jump: an unreachable waypoint was dropped and the next segment's path
\* begins elsewhere
JumpAfterFailed ==
    /\ FramesBuilt
    /\ Failed # {}
    /\ ~Continuous(Trajectory)

=============================================================================
